---- MODULE Spec2Model ----
(***************************************************************************)
(* A model of advanced-vector/vector.h: RawMemory<T> (an owner of one raw  *)
(* block) and Vector<T> (the growable container built on it).              *)
(*                                                                         *)
(* The heap is a set of blocks addressed by an id (0 is nullptr); a slot   *)
(* of a block is either Raw (no object) or holds the value of a            *)
(* constructed element.  Every public operation of Vector is one action;   *)
(* it is computed by an operator over a machine record m that threads the  *)
(* heap, the vectors, the pending exception and the instrumentation        *)
(* counters through the statements of the operation's body.                *)
(***************************************************************************)
EXTENDS Integers, Sequences, FiniteSets, TLC

\* ---- bounds of the exploration ----
MaxCap == 4
MaxHeap == 3
MaxVal == 1
MaxFail == 3

Vecs == {"a", "b"}
Blocks == 1..3
Val == 1..MaxVal
Fail == 0..MaxFail

\* a slot of raw memory in which no object lives
Raw == 0 - 1
\* the value of a value-initialised element, also the moved-from value
Default == 0

\* the element types the template is instantiated with
Types ==
  { [id |-> "trivial",  nothrowMove |-> TRUE,  copyable |-> TRUE,  moveChanges |-> FALSE, throws |-> FALSE],
    [id |-> "legacy",   nothrowMove |-> FALSE, copyable |-> TRUE,  moveChanges |-> TRUE,  throws |-> TRUE],
    [id |-> "moveonlythrowing", nothrowMove |-> FALSE, copyable |-> FALSE, moveChanges |-> TRUE, throws |-> TRUE] }

\* the RawMemory objects a caller owns directly
Raws == {"r", "s"}

VARIABLES T, heap, vec, raw, last, crashed
vars == <<T, heap, vec, raw, last, crashed>>

Other(v) == CHOOSE w \in Vecs : w # v

\* ---- the machine record ----
Start(f, ub) ==
  [h |-> heap, vs |-> vec, f |-> f, ub |-> ub, thrown |-> FALSE, crash |-> FALSE,
   asrt |-> FALSE, leak |-> FALSE, misuse |-> FALSE, ret |-> 0, it |-> 0 - 1, obj |-> [alive |-> FALSE, data_ |-> [buffer_ |-> 0, capacity_ |-> 0], size_ |-> 0], path |-> "", where |-> "",
   rc |-> 0, rm |-> 0, ops |-> 0]

\* which element operations (and the allocation) may throw
Fallible(kind) ==
  CASE kind = "alloc" -> TRUE
    [] kind = "move"  -> ~T.nothrowMove
    [] OTHER          -> T.throws

\* one fallible step: the m.f-th such step of the operation throws
Step(m, kind, where) ==
  IF ~Fallible(kind) \/ m.f = 0 THEN m
  ELSE IF m.f = 1 THEN [m EXCEPT !.f = 0, !.thrown = TRUE, !.where = where]
  ELSE [m EXCEPT !.f = @ - 1]

Get(m, b, i) == m.h[b].slots[i + 1]
Put(m, b, i, x) == [m EXCEPT !.h[b].slots[i + 1] = x]
MovedFrom(x) == IF T.moveChanges THEN Default ELSE x

\* an object of value x starts to live in slot i of block b; a live object
\* that was there is lost without its destructor
Build(m, b, i, x) == [Put(m, b, i, x) EXCEPT !.misuse = @ \/ (Get(m, b, i) # Raw)]

\* ---- RawMemory ----
FreeBlock(h) == CHOOSE b \in Blocks : ~h[b].live /\ \A c \in Blocks : c < b => h[c].live

Allocate(m, n) ==
  IF n = 0 THEN [m EXCEPT !.ret = 0]
  ELSE LET m1 == Step(m, "alloc", "alloc") IN
       IF m1.thrown THEN m1
       ELSE LET b == FreeBlock(m1.h) IN
            [m1 EXCEPT !.h[b] = [live |-> TRUE, slots |-> [i \in 1..n |-> Raw]], !.ret = b]

Deallocate(m, b) ==
  IF b = 0 THEN m
  ELSE [m EXCEPT !.h[b] = [live |-> FALSE, slots |-> <<>>],
                 !.leak = @ \/ (\E i \in DOMAIN m.h[b].slots : m.h[b].slots[i] # Raw),
                 !.misuse = @ \/ ~m.h[b].live]

EmptyRawMemory == [buffer_ |-> 0, capacity_ |-> 0]

\* RawMemory(size_t capacity); the object is left in m.ret as its buffer
RawMemoryCtor(b, capacity) == [buffer_ |-> b, capacity_ |-> capacity]

\* faulty variant: the handle is copied and the source keeps it
RawMemoryMoveCtorShallow(other) == <<other, other>>

\* RawMemory(RawMemory&& other): a pair <<the new object, what is left of other>>
RawMemoryMoveCtor(other) == <<other, EmptyRawMemory>>

\* void Swap(RawMemory& other): a pair <<the object, other>> after the exchange
RawMemorySwap(x, other) == <<other, x>>

\* RawMemory& operator=(RawMemory&& rhs): Swap(rhs), and no return statement
RawMemoryMoveAssign(x, rhs) == RawMemorySwap(x, rhs)

\* ---- element algorithms of <memory> and <algorithm> ----
DestroyN(m, b, o, n) ==
  IF n <= 0 THEN m
  ELSE [m EXCEPT !.h[b].slots = [j \in DOMAIN @ |-> IF o < j /\ j <= o + n THEN Raw ELSE @[j]],
                 !.ops = @ + n,
                 !.misuse = @ \/ (\E j \in DOMAIN m.h[b].slots :
                                     o < j /\ j <= o + n /\ m.h[b].slots[j] = Raw)]

RECURSIVE UCopyLoop(_, _, _, _, _, _, _)
UCopyLoop(m, sb, so, n, db, do, i) ==
  IF i >= n THEN m
  ELSE LET m1 == Step(m, "copy", "relocate") IN
       IF m1.thrown THEN DestroyN(m1, db, do, i)
       ELSE UCopyLoop([Build(m1, db, do + i, Get(m1, sb, so + i)) EXCEPT !.rc = @ + 1, !.ops = @ + 1],
                      sb, so, n, db, do, i + 1)

UninitializedCopyN(m, sb, so, n, db, do) == UCopyLoop(m, sb, so, n, db, do, 0)

RECURSIVE UMoveLoop(_, _, _, _, _, _, _)
UMoveLoop(m, sb, so, n, db, do, i) ==
  IF i >= n THEN m
  ELSE LET m1 == Step(m, "move", "relocate") IN
       IF m1.thrown THEN DestroyN(m1, db, do, i)
       ELSE LET x == Get(m1, sb, so + i)
                m2 == Put(Build(m1, db, do + i, x), sb, so + i, MovedFrom(x)) IN
            UMoveLoop([m2 EXCEPT !.rm = @ + 1, !.ops = @ + 1], sb, so, n, db, do, i + 1)

UninitializedMoveN(m, sb, so, n, db, do) == UMoveLoop(m, sb, so, n, db, do, 0)

RECURSIVE UValueLoop(_, _, _, _, _)
UValueLoop(m, b, o, n, i) ==
  IF i >= n THEN m
  ELSE LET m1 == Step(m, "default", "construct") IN
       IF m1.thrown THEN DestroyN(m1, b, o, i)
       ELSE UValueLoop([Build(m1, b, o + i, Default) EXCEPT !.ops = @ + 1], b, o, n, i + 1)

UninitializedValueConstructN(m, b, o, n) == UValueLoop(m, b, o, n, 0)

\* std::copy: copy assignment, front to back
RECURSIVE CopyLoop(_, _, _, _, _, _, _)
CopyLoop(m, sb, so, n, db, do, i) ==
  IF i >= n THEN m
  ELSE LET m1 == Step(m, "copy", "assign") IN
       IF m1.thrown THEN m1
       ELSE CopyLoop([Put(m1, db, do + i, Get(m1, sb, so + i)) EXCEPT !.ops = @ + 1],
                     sb, so, n, db, do, i + 1)

StdCopy(m, sb, so, n, db, do) == CopyLoop(m, sb, so, n, db, do, 0)

\* std::move(first, last, d_first): move assignment, front to back, in block b
RECURSIVE MoveLoop(_, _, _, _, _)
MoveLoop(m, b, first, lst, d) ==
  IF first >= lst THEN m
  ELSE LET m1 == Step(m, "move", "assign") IN
       IF m1.thrown THEN m1
       ELSE LET x == Get(m1, b, first)
                m2 == Put(Put(m1, b, first, MovedFrom(x)), b, d, x) IN
            MoveLoop([m2 EXCEPT !.ops = @ + 1], b, first + 1, lst, d + 1)

StdMove(m, b, first, lst, d) == MoveLoop(m, b, first, lst, d)

\* std::move_backward(first, last, d_last): move assignment, back to front
RECURSIVE MoveBackwardLoop(_, _, _, _, _)
MoveBackwardLoop(m, b, first, lst, dl) ==
  IF first >= lst THEN m
  ELSE LET m1 == Step(m, "move", "assign") IN
       IF m1.thrown THEN m1
       ELSE LET x == Get(m1, b, lst - 1)
                m2 == Put(Put(m1, b, lst - 1, MovedFrom(x)), b, dl - 1, x) IN
            MoveBackwardLoop([m2 EXCEPT !.ops = @ + 1], b, first, lst - 1, dl - 1)

\* [first, last) with first > last is not a valid range: the behaviour is
\* undefined; the loop of one library does nothing, another runs off the block
StdMoveBackward(m, b, first, lst, dl) ==
  IF first > lst
  THEN (IF m.ub = "crash" THEN [m EXCEPT !.crash = TRUE] ELSE m)
  ELSE MoveBackwardLoop(m, b, first, lst, dl)

\* T& RawMemory::operator[](size_t index) on data_ of v: assert(index < capacity_).
\* A failed assert aborts the program, unless the build defines NDEBUG.
RawMemoryIndex(m, v, index) ==
  IF index < m.vs[v].data_.capacity_ THEN m
  ELSE [m EXCEPT !.asrt = TRUE, !.crash = @ \/ (m.ub = "crash")]

\* ---- Vector: helpers ----
DeadVector == [alive |-> FALSE, data_ |-> EmptyRawMemory, size_ |-> 0]

\* faulty variant: the test for a type that cannot be copied is missing
MoveIfNothrowOnly == T.nothrowMove

\* if constexpr (is_nothrow_move_constructible_v<T> || !is_copy_constructible_v<T>)
MoveIfNoexcept == T.nothrowMove \/ ~T.copyable

\* faulty variant: growth by one slot
GrowthCapacityPlusOne(size) == size + 1

\* size_ == 0 ? 1 : size_ * 2
GrowthCapacity(size) == IF size = 0 THEN 1 ELSE size * 2

\* the argument of a call that adds an element: the value x of an object of the
\* caller, or a reference to the element in slot j of block b
Value(x) == [b |-> 0, j |-> 0, val |-> x]
Element(b, j) == [b |-> b, j |-> j, val |-> 0]
\* the value the argument has when it is read
Read(m, arg) == IF arg.b = 0 THEN arg.val ELSE Get(m, arg.b, arg.j)

\* new (p) T(args...): kind is how the element is built (args, copy, move)
ConstructAt(m, b, i, arg, kind) ==
  LET m1 == Step(m, kind, "construct") IN
  IF m1.thrown THEN m1 ELSE [Build(m1, b, i, Read(m1, arg)) EXCEPT !.ops = @ + 1]

\* the relocation of n elements into new storage
Relocate(m, sb, so, n, db, do) ==
  IF MoveIfNoexcept THEN UninitializedMoveN(m, sb, so, n, db, do)
  ELSE UninitializedCopyN(m, sb, so, n, db, do)

\* data_.Swap(new_data) followed by the destructor of new_data
AdoptStorage(m, v, nb, ncap) ==
  LET old == m.vs[v].data_
      m1 == [m EXCEPT !.vs[v].data_ = RawMemoryCtor(nb, ncap)] IN
  Deallocate(m1, old.buffer_)

\* ---- Vector: construction and destruction ----
\* explicit Vector(size_t size); the constructed object is left in m.obj
VectorSized(m, size) ==
  LET m1 == Allocate(m, size) IN
  IF m1.thrown THEN m1
  ELSE LET nb == m1.ret
           m2 == UninitializedValueConstructN(m1, nb, 0, size) IN
       IF m2.thrown THEN Deallocate(m2, nb)
       ELSE [m2 EXCEPT !.obj = [alive |-> TRUE, data_ |-> RawMemoryCtor(nb, size), size_ |-> size]]

\* faulty variant: the copy takes the block of other instead of copying into its own
VectorCopyShallow(m, other) == [m EXCEPT !.obj = m.vs[other]]

\* Vector(const Vector& other).  other is const, so std::move of its elements
\* yields const T&&, which selects T's copy constructor: both branches copy.
VectorCopy(m, other) ==
  LET o == m.vs[other]
      m1 == Allocate(m, o.size_) IN
  IF m1.thrown THEN m1
  ELSE LET nb == m1.ret
           m2 == UninitializedCopyN(m1, o.data_.buffer_, 0, o.size_, nb, 0) IN
       IF m2.thrown THEN Deallocate(m2, nb)
       ELSE [m2 EXCEPT !.obj = [alive |-> TRUE, data_ |-> RawMemoryCtor(nb, o.size_), size_ |-> o.size_]]

\* faulty variant: other.size_ = 0 is missing
VectorMoveKeepsSize(m, other) ==
  LET o == m.vs[other] IN
  [m EXCEPT !.obj = [alive |-> TRUE, data_ |-> o.data_, size_ |-> o.size_],
            !.vs[other].data_ = EmptyRawMemory]

\* Vector(Vector&& other)
VectorMove(m, other) ==
  LET o == m.vs[other]
      mv == RawMemoryMoveCtor(o.data_) IN
  [m EXCEPT !.obj = [alive |-> TRUE, data_ |-> mv[1], size_ |-> o.size_],
            !.vs[other].data_ = mv[2],
            !.vs[other].size_ = 0]

\* faulty variant: the elements are not destroyed before the block is released
VectorDtorNoDestroy(m, x) == Deallocate(m, x.data_.buffer_)

\* ~Vector() of the object x, then ~RawMemory() of its data_
VectorDtor(m, x) ==
  Deallocate(DestroyN(m, x.data_.buffer_, 0, x.size_), x.data_.buffer_)

\* ---- Vector: operations ----
\* faulty variant: the early return compares with < and reallocates at equal capacity
ReserveStrictCompare(m, v, new_capacity) ==
  LET d == m.vs[v].data_
      sz == m.vs[v].size_ IN
  IF new_capacity < d.capacity_ THEN [m EXCEPT !.path = "noop"]
  ELSE LET m1 == Allocate([m EXCEPT !.path = "grow"], new_capacity) IN
       IF m1.thrown THEN m1
       ELSE LET nb == m1.ret
                m2 == Relocate(m1, d.buffer_, 0, sz, nb, 0) IN
            IF m2.thrown THEN Deallocate(m2, nb)
            ELSE AdoptStorage(DestroyN(m2, d.buffer_, 0, sz), v, nb, new_capacity)

\* faulty variant: the old elements are destroyed before the new storage is allocated
ReserveDestroysFirst(m, v, new_capacity) ==
  LET d == m.vs[v].data_
      sz == m.vs[v].size_ IN
  IF new_capacity <= d.capacity_ THEN [m EXCEPT !.path = "noop"]
  ELSE LET m1 == Allocate(DestroyN([m EXCEPT !.path = "grow"], d.buffer_, 0, sz), new_capacity) IN
       IF m1.thrown THEN m1
       ELSE AdoptStorage(m1, v, m1.ret, new_capacity)

\* void Reserve(size_t new_capacity)
Reserve(m, v, new_capacity) ==
  LET d == m.vs[v].data_
      sz == m.vs[v].size_ IN
  IF new_capacity <= d.capacity_ THEN [m EXCEPT !.path = "noop"]
  ELSE LET m1 == Allocate([m EXCEPT !.path = "grow"], new_capacity) IN
       IF m1.thrown THEN m1
       ELSE LET nb == m1.ret
                m2 == Relocate(m1, d.buffer_, 0, sz, nb, 0) IN
            IF m2.thrown THEN Deallocate(m2, nb)
            ELSE AdoptStorage(DestroyN(m2, d.buffer_, 0, sz), v, nb, new_capacity)

\* faulty variant: the vector takes what other holds and other keeps it
SwapOneWay(m, v, other) ==
  [m EXCEPT !.vs[v].data_ = m.vs[other].data_,
            !.vs[v].size_ = m.vs[other].size_]

\* void Swap(Vector& other) noexcept
Swap(m, v, other) ==
  [m EXCEPT !.vs[v].data_ = m.vs[other].data_,
            !.vs[v].size_ = m.vs[other].size_,
            !.vs[other].data_ = m.vs[v].data_,
            !.vs[other].size_ = m.vs[v].size_]

Resize(m, v, new_size) ==
  LET sz == m.vs[v].size_ IN
  IF new_size > sz
  THEN LET m1 == Reserve(m, v, new_size) IN
       IF m1.thrown THEN m1
       ELSE LET m2 == UninitializedValueConstructN([m1 EXCEPT !.path = "grow"],
                        m1.vs[v].data_.buffer_, sz, new_size - sz) IN
            IF m2.thrown THEN m2 ELSE [m2 EXCEPT !.vs[v].size_ = new_size]
  ELSE IF new_size < sz
  THEN [DestroyN([m EXCEPT !.path = "shrink"], m.vs[v].data_.buffer_, new_size, sz - new_size)
          EXCEPT !.vs[v].size_ = new_size]
  ELSE [m EXCEPT !.path = "noop"]

\* the common body of PushBack(const T&), PushBack(T&&) and EmplaceBack
AppendBody(m, v, arg, kind) ==
  LET d == m.vs[v].data_
      sz == m.vs[v].size_ IN
  IF sz = d.capacity_
  THEN LET m1 == Allocate([m EXCEPT !.path = "grow"], GrowthCapacity(sz)) IN
       IF m1.thrown THEN m1
       ELSE LET nb == m1.ret
                m2 == ConstructAt(m1, nb, sz, arg, kind) IN
            IF m2.thrown THEN Deallocate(m2, nb)
            ELSE LET m3 == Relocate(m2, d.buffer_, 0, sz, nb, 0) IN
                 IF m3.thrown THEN Deallocate(m3, nb)
                 ELSE [AdoptStorage(DestroyN(m3, d.buffer_, 0, sz), v, nb, GrowthCapacity(sz))
                         EXCEPT !.vs[v].size_ = sz + 1]
  ELSE LET m1 == ConstructAt([m EXCEPT !.path = "nogrow"], d.buffer_, sz, arg, kind) IN
       IF m1.thrown THEN m1 ELSE [m1 EXCEPT !.vs[v].size_ = sz + 1]

PushBackCopy(m, v, arg) == AppendBody(m, v, arg, "copy")
PushBackMove(m, v, arg) == AppendBody(m, v, arg, "move")
EmplaceBack(m, v, arg, kind) ==
  LET m1 == AppendBody(m, v, arg, kind) IN
  IF m1.thrown THEN m1
  ELSE [RawMemoryIndex(m1, v, m1.vs[v].size_ - 1) EXCEPT !.it = m1.vs[v].size_ - 1]

\* faulty variant: the last element is not destroyed
PopBackKeepsElement(m, v) == [m EXCEPT !.vs[v].size_ = @ - 1]

\* faulty variant: --size_ is missing
PopBackNoSizeUpdate(m, v) ==
  DestroyN(m, m.vs[v].data_.buffer_, m.vs[v].size_ - 1, 1)

\* void PopBack()
PopBack(m, v) ==
  LET sz == m.vs[v].size_ IN
  [DestroyN(m, m.vs[v].data_.buffer_, sz - 1, 1) EXCEPT !.vs[v].size_ = sz - 1]

\* the growth path of Emplace (size_ == Capacity())
EmplaceGrow(m, v, pos, arg, kind) ==
  LET d == m.vs[v].data_
      sz == m.vs[v].size_
      m1 == Allocate([m EXCEPT !.path = "grow"], GrowthCapacity(sz)) IN
  IF m1.thrown THEN m1
  ELSE LET nb == m1.ret
           m2 == ConstructAt(m1, nb, pos, arg, kind) IN
       IF m2.thrown THEN Deallocate(m2, nb)
       ELSE LET m3 == Relocate(m2, d.buffer_, 0, pos, nb, 0) IN
            IF m3.thrown THEN Deallocate(m3, nb)
            ELSE LET m4 == Relocate(m3, d.buffer_, pos, sz - pos, nb, pos + 1) IN
                 IF m4.thrown THEN Deallocate(m4, nb)
                 ELSE [AdoptStorage(DestroyN(m4, d.buffer_, 0, sz), v, nb, GrowthCapacity(sz))
                         EXCEPT !.vs[v].size_ = sz + 1, !.it = pos]

\* ~T() of the local T buffer when the scope is left
DestroyBuffer(m) == [m EXCEPT !.ops = @ + 1]

\* the no-growth path of Emplace (size_ < Capacity()); buffer is the local
\* T buffer(args...), built before any element is touched
EmplaceShift(m, v, pos, arg, kind) ==
  LET b == m.vs[v].data_.buffer_
      sz == m.vs[v].size_
      buffer == Read(m, arg)
      m1 == Step([m EXCEPT !.path = "nogrow"], kind, "buffer") IN
  IF m1.thrown THEN m1
  ELSE LET m2 == Step([m1 EXCEPT !.ops = @ + 1], "move", "construct") IN
       IF m2.thrown THEN DestroyBuffer(m2)
       ELSE LET x == Get(m2, b, sz - 1)
                m3 == [Put(Build(m2, b, sz, x), b, sz - 1, MovedFrom(x)) EXCEPT !.ops = @ + 1]
                m4 == StdMoveBackward(RawMemoryIndex(m3, v, pos), b, pos, sz - 1, sz) IN
            IF m4.thrown \/ m4.crash THEN DestroyBuffer(m4)
            ELSE LET m5 == Step(m4, "move", "assign") IN
                 IF m5.thrown THEN DestroyBuffer(m5)
                 ELSE DestroyBuffer([Put(m5, b, pos, buffer)
                        EXCEPT !.ops = @ + 1, !.vs[v].size_ = sz + 1, !.it = pos])

Emplace(m, v, pos, arg, kind) ==
  IF m.vs[v].size_ = 0
  THEN LET m1 == EmplaceBack(m, v, arg, kind) IN
       IF m1.thrown THEN [m1 EXCEPT !.path = "empty"]
       ELSE [m1 EXCEPT !.path = "empty", !.it = m1.vs[v].size_ - 1]
  ELSE IF m.vs[v].size_ = m.vs[v].data_.capacity_
  THEN EmplaceGrow(m, v, pos, arg, kind)
  ELSE EmplaceShift(m, v, pos, arg, kind)

InsertCopy(m, v, pos, arg) == Emplace(m, v, pos, arg, "copy")
InsertMove(m, v, pos, arg) == Emplace(m, v, pos, arg, "move")

\* the arguments &data_[iter_distance+1] and &data_[iter_distance] of std::move
\* are evaluated before it runs
Erase(m, v, pos) ==
  LET b == m.vs[v].data_.buffer_
      sz == m.vs[v].size_
      m0 == RawMemoryIndex(RawMemoryIndex(m, v, pos + 1), v, pos) IN
  IF m0.crash THEN m0
  ELSE LET m1 == StdMove(m0, b, pos + 1, sz, pos) IN
       IF m1.thrown THEN m1
       ELSE [DestroyN(m1, b, sz - 1, 1) EXCEPT !.vs[v].size_ = sz - 1, !.it = pos]

\* faulty variant: size_ = rhs.size_ is missing
CopyAssignNoSizeUpdate(m, v, rhs) ==
  LET d == m.vs[v].data_
      sz == m.vs[v].size_
      r == m.vs[rhs] IN
  IF v = rhs THEN [m EXCEPT !.path = "self"]
  ELSE IF r.size_ > d.capacity_
  THEN LET m1 == VectorCopy([m EXCEPT !.path = "realloc"], rhs) IN
       IF m1.thrown THEN m1
       ELSE LET rhs_copy == m1.obj
                m2 == [m1 EXCEPT !.vs[v].data_ = rhs_copy.data_, !.vs[v].size_ = rhs_copy.size_]
                m3 == VectorDtor(m2, m.vs[v]) IN
            [m3 EXCEPT !.obj = DeadVector]
  ELSE IF r.size_ >= sz
  THEN LET m1 == StdCopy([m EXCEPT !.path = "extend"], r.data_.buffer_, 0, sz, d.buffer_, 0) IN
       IF m1.thrown THEN m1
       ELSE UninitializedCopyN(m1, r.data_.buffer_, sz, r.size_ - sz, d.buffer_, sz)
  ELSE LET m1 == StdCopy([m EXCEPT !.path = "shrink"], r.data_.buffer_, 0, r.size_, d.buffer_, 0) IN
       IF m1.thrown THEN m1
       ELSE DestroyN(m1, d.buffer_, r.size_, sz - r.size_)

\* Vector& operator=(const Vector& rhs)
CopyAssign(m, v, rhs) ==
  LET d == m.vs[v].data_
      sz == m.vs[v].size_
      r == m.vs[rhs] IN
  IF v = rhs THEN [m EXCEPT !.path = "self"]
  ELSE IF r.size_ > d.capacity_
  THEN LET m1 == VectorCopy([m EXCEPT !.path = "realloc"], rhs) IN
       IF m1.thrown THEN m1
       ELSE LET rhs_copy == m1.obj
                m2 == [m1 EXCEPT !.vs[v].data_ = rhs_copy.data_, !.vs[v].size_ = rhs_copy.size_]
                m3 == VectorDtor(m2, m.vs[v]) IN
            [m3 EXCEPT !.vs[v].size_ = r.size_, !.obj = DeadVector]
  ELSE IF r.size_ >= sz
  THEN LET m1 == StdCopy([m EXCEPT !.path = "extend"], r.data_.buffer_, 0, sz, d.buffer_, 0) IN
       IF m1.thrown THEN m1
       ELSE LET m2 == UninitializedCopyN(m1, r.data_.buffer_, sz, r.size_ - sz, d.buffer_, sz) IN
            IF m2.thrown THEN m2 ELSE [m2 EXCEPT !.vs[v].size_ = r.size_]
  ELSE LET m1 == StdCopy([m EXCEPT !.path = "shrink"], r.data_.buffer_, 0, r.size_, d.buffer_, 0) IN
       IF m1.thrown THEN m1
       ELSE [DestroyN(m1, d.buffer_, r.size_, sz - r.size_) EXCEPT !.vs[v].size_ = r.size_]

\* Vector& operator=(Vector&& rhs) noexcept
MoveAssign(m, v, rhs) == Swap(m, v, rhs)

\* ---- the state machine ----
\* the element sequence [0, size_) of vector v
Elems(vs, h, v) == [i \in 1..vs[v].size_ |-> h[vs[v].data_.buffer_].slots[i]]

Size(v) == vec[v].size_
Capacity(v) == vec[v].data_.capacity_

Outcome(m) == IF m.crash THEN "crash" ELSE IF m.thrown THEN "throw" ELSE "ok"

AppendOps == {"PushBackCopy", "PushBackMove", "EmplaceBack"}
InsertOps == {"Emplace", "InsertCopy", "InsertMove"}
\* the calls whose argument is an element of the vector itself
AliasOps == {"InsertElement", "PushBackElement", "EmplaceBackElement"}

\* the exploration keeps each capacity within MaxCap and their sum within H
Bounded(m, H) ==
  /\ \A w \in Vecs : m.vs[w].data_.capacity_ <= MaxCap
  /\ m.vs["a"].data_.capacity_ + m.vs["b"].data_.capacity_ <= H

\* what a caller observes of vector w: its object and its elements
View(vs, h, w) == [obj |-> vs[w], elems |-> Elems(vs, h, w)]

NoLast ==
  [op |-> "init", v |-> "a", o |-> "", pos |-> 0, val |-> 0, res |-> "ok", path |-> "",
   where |-> "", it |-> 0 - 1, asrt |-> FALSE, leak |-> FALSE, misuse |-> FALSE, rc |-> 0, rm |-> 0, ops |-> 0,
   pre |-> <<>>, preCap |-> 0, preBuf |-> 0, oth |-> [obj |-> DeadVector, elems |-> <<>>],
   copy |-> "", undo |-> [set |-> FALSE, pre |-> <<>>, path |-> ""]]

\* the effect of one call: m is the machine after the body of the operation.
\* last records the call: its arguments and result when it returned; the
\* elements, capacity and block of v before the call when it inserted, appended
\* or threw; the other vector as it was before the call; in copy the vector
\* that the call before this one made a copy of the other; and in undo, for a
\* PopBack that directly follows an append to the same vector that returned,
\* the elements before that append and the path it took.
Commit(m, H, op, v, o, pos, val) ==
  LET res == Outcome(m)
      keep == (op \in AppendOps \cup InsertOps \cup AliasOps) \/ res = "throw" IN
  /\ m.f = 0
  /\ Bounded(m, H)
  /\ heap' = IF m.crash THEN heap ELSE m.h
  /\ vec' = IF m.crash THEN vec ELSE m.vs
  /\ crashed' = m.crash
  /\ last' = [op |-> op, v |-> v, o |-> o,
              pos |-> IF res = "ok" THEN pos ELSE 0,
              val |-> IF res = "ok" THEN val ELSE 0,
              res |-> res,
              path |-> m.path, where |-> m.where, it |-> m.it, asrt |-> m.asrt,
              leak |-> m.leak, misuse |-> m.misuse,
              rc |-> m.rc, rm |-> m.rm, ops |-> m.ops,
              pre |-> IF keep THEN Elems(vec, heap, v) ELSE <<>>,
              preCap |-> IF keep \/ op = "CopyAssign" THEN Capacity(v) ELSE 0,
              preBuf |-> IF res = "throw" THEN vec[v].data_.buffer_ ELSE 0,
              oth |-> View(vec, heap, Other(v)),
              copy |-> IF last.op \in {"VectorCopy", "CopyAssign"} /\ last.res = "ok"
                          /\ last.v # last.o
                       THEN last.v ELSE "",
              undo |-> IF op = "PopBack" /\ last.op \in AppendOps /\ last.res = "ok"
                          /\ last.v = v
                       THEN [set |-> TRUE, pre |-> last.pre, path |-> last.path]
                       ELSE [set |-> FALSE, pre |-> <<>>, path |-> ""]]
  /\ UNCHANGED <<T, raw>>

\* a constructor that returned puts its object at v
Built(m, v) == IF m.thrown THEN m ELSE [m EXCEPT !.vs[v] = m.obj, !.obj = DeadVector]

EmptyHeap == [b \in Blocks |-> [live |-> FALSE, slots |-> <<>>]]
DeadRawMemory == [alive |-> FALSE, mem |-> EmptyRawMemory]
NoRawMemory == [r \in Raws |-> DeadRawMemory]
EmptyVector == [alive |-> TRUE, data_ |-> EmptyRawMemory, size_ |-> 0]

\* two default-constructed vectors
Init ==
  /\ T \in Types
  /\ heap = EmptyHeap
  /\ vec = [v \in Vecs |-> EmptyVector]
  /\ raw = NoRawMemory
  /\ last = NoLast
  /\ crashed = FALSE

\* one default-constructed vector
InitOne ==
  /\ T \in Types
  /\ heap = EmptyHeap
  /\ vec = [v \in Vecs |-> IF v = "a" THEN EmptyVector ELSE DeadVector]
  /\ raw = NoRawMemory
  /\ last = NoLast
  /\ crashed = FALSE

Callable(v) == ~crashed /\ vec[v].alive
Constructible(v) == ~crashed /\ ~vec[v].alive

\* Emplace at end() below capacity runs std::move_backward on an invalid range
UBChoices(v, pos) ==
  IF 0 < Size(v) /\ Size(v) < Capacity(v) /\ pos = Size(v) THEN {"noop", "crash"} ELSE {"noop"}

CallVectorDefault(v, H) ==
  /\ Constructible(v)
  /\ Commit([Start(0, "noop") EXCEPT !.vs[v] = EmptyVector], H, "VectorDefault", v, "", 0, 0)

CallVectorSized(v, n, f, H) ==
  /\ Constructible(v)
  /\ Commit(Built(VectorSized(Start(f, "noop"), n), v), H, "VectorSized", v, "", n, 0)

CallVectorCopy(v, f, H) ==
  /\ Constructible(v) /\ vec[Other(v)].alive /\ T.copyable
  /\ Commit(Built(VectorCopy(Start(f, "noop"), Other(v)), v), H, "VectorCopy", v, Other(v), 0, 0)

CallVectorMove(v, H) ==
  /\ Constructible(v) /\ vec[Other(v)].alive
  /\ Commit(Built(VectorMove(Start(0, "noop"), Other(v)), v), H, "VectorMove", v, Other(v), 0, 0)

CallVectorDtor(v, H) ==
  /\ Callable(v)
  /\ Commit([VectorDtor(Start(0, "noop"), vec[v]) EXCEPT !.vs[v] = DeadVector],
            H, "VectorDtor", v, "", 0, 0)

CallEmplace(v, pos, val, f, H) ==
  /\ Callable(v) /\ pos <= Size(v)
  /\ \E ub \in UBChoices(v, pos) :
       Commit(Emplace(Start(f, ub), v, pos, Value(val), "args"), H, "Emplace", v, "", pos, val)

CallInsertCopy(v, pos, val, f, H) ==
  /\ Callable(v) /\ pos <= Size(v) /\ T.copyable
  /\ \E ub \in UBChoices(v, pos) :
       Commit(InsertCopy(Start(f, ub), v, pos, Value(val)), H, "InsertCopy", v, "", pos, val)

CallInsertMove(v, pos, val, f, H) ==
  /\ Callable(v) /\ pos <= Size(v)
  /\ \E ub \in UBChoices(v, pos) :
       Commit(InsertMove(Start(f, ub), v, pos, Value(val)), H, "InsertMove", v, "", pos, val)

\* Erase of the element in the last slot of the block indexes data_ with
\* Capacity(): the assert of RawMemory::operator[] fails
AssertChoices(v, pos) ==
  IF pos + 1 >= Capacity(v) THEN {"noop", "crash"} ELSE {"noop"}

CallErase(v, pos, f, H) ==
  /\ Callable(v) /\ pos < Size(v)
  /\ \E ub \in AssertChoices(v, pos) :
       Commit(Erase(Start(f, ub), v, pos), H, "Erase", v, "", pos, 0)

CallCopyAssign(v, rhs, f, H) ==
  /\ Callable(v) /\ vec[rhs].alive /\ T.copyable
  /\ Commit(CopyAssign(Start(f, "noop"), v, rhs), H, "CopyAssign", v, rhs, 0, 0)

CallMoveAssign(v, rhs, H) ==
  /\ Callable(v) /\ vec[rhs].alive
  /\ Commit(MoveAssign(Start(0, "noop"), v, rhs), H, "MoveAssign", v, rhs, 0, 0)

CallSwap(v, H) ==
  /\ Callable(v) /\ vec[Other(v)].alive
  /\ Commit(Swap(Start(0, "noop"), v, Other(v)), H, "Swap", v, Other(v), 0, 0)

CallReserve(v, n, f, H) ==
  /\ Callable(v)
  /\ Commit(Reserve(Start(f, "noop"), v, n), H, "Reserve", v, "", n, 0)

CallResize(v, n, f, H) ==
  /\ Callable(v)
  /\ Commit(Resize(Start(f, "noop"), v, n), H, "Resize", v, "", n, 0)

CallPushBackCopy(v, val, f, H) ==
  /\ Callable(v) /\ T.copyable
  /\ Commit(PushBackCopy(Start(f, "noop"), v, Value(val)), H, "PushBackCopy", v, "", Size(v), val)

CallPushBackMove(v, val, f, H) ==
  /\ Callable(v)
  /\ Commit(PushBackMove(Start(f, "noop"), v, Value(val)), H, "PushBackMove", v, "", Size(v), val)

CallEmplaceBack(v, val, f, H) ==
  /\ Callable(v)
  /\ Commit(EmplaceBack(Start(f, "noop"), v, Value(val), "args"), H, "EmplaceBack", v, "", Size(v), val)

CallPopBack(v, H) ==
  /\ Callable(v) /\ Size(v) > 0
  /\ Commit(PopBack(Start(0, "noop"), v), H, "PopBack", v, "", 0, 0)

\* v.Insert(v.begin() + pos, v[j])
CallInsertElement(v, pos, j, f, H) ==
  /\ Callable(v) /\ pos <= Size(v) /\ j < Size(v) /\ T.copyable
  /\ \E ub \in UBChoices(v, pos) :
       Commit(InsertCopy(Start(f, ub), v, pos, Element(vec[v].data_.buffer_, j)), H,
              "InsertElement", v, "", pos, Elems(vec, heap, v)[j + 1])

\* v.PushBack(v[j])
CallPushBackElement(v, j, f, H) ==
  /\ Callable(v) /\ j < Size(v) /\ T.copyable
  /\ Commit(PushBackCopy(Start(f, "noop"), v, Element(vec[v].data_.buffer_, j)), H,
            "PushBackElement", v, "", Size(v), Elems(vec, heap, v)[j + 1])

\* v.EmplaceBack(v[j])
CallEmplaceBackElement(v, j, f, H) ==
  /\ Callable(v) /\ j < Size(v) /\ T.copyable
  /\ Commit(EmplaceBack(Start(f, "noop"), v, Element(vec[v].data_.buffer_, j), "copy"), H,
            "EmplaceBackElement", v, "", Size(v), Elems(vec, heap, v)[j + 1])

\* the calls on a vector of V whose argument is one of its own elements
Aliased(V, F, H) ==
  \/ \E v \in V, pos \in 0..MaxCap, j \in 0..(MaxCap - 1), f \in F : CallInsertElement(v, pos, j, f, H)
  \/ \E v \in V, j \in 0..(MaxCap - 1), f \in F : CallPushBackElement(v, j, f, H)
  \/ \E v \in V, j \in 0..(MaxCap - 1), f \in F : CallEmplaceBackElement(v, j, f, H)

\* the appends to a vector of V, with the failures of F injected
Appends(V, F, H) ==
  \/ \E v \in V, val \in Val, f \in F : CallPushBackCopy(v, val, f, H)
  \/ \E v \in V, val \in Val, f \in F : CallPushBackMove(v, val, f, H)
  \/ \E v \in V, val \in Val, f \in F : CallEmplaceBack(v, val, f, H)

\* the calls on one vector of V
Single(V, F, H) ==
  \/ \E v \in V : CallVectorDefault(v, H)
  \/ \E v \in V, n \in 0..MaxCap, f \in F : CallVectorSized(v, n, f, H)
  \/ \E v \in V : CallVectorDtor(v, H)
  \/ \E v \in V, pos \in 0..MaxCap, val \in Val, f \in F : CallEmplace(v, pos, val, f, H)
  \/ \E v \in V, pos \in 0..MaxCap, val \in Val, f \in F : CallInsertCopy(v, pos, val, f, H)
  \/ \E v \in V, pos \in 0..MaxCap, val \in Val, f \in F : CallInsertMove(v, pos, val, f, H)
  \/ \E v \in V, pos \in 0..MaxCap, f \in F : CallErase(v, pos, f, H)
  \/ \E v \in V, n \in 0..MaxCap, f \in F : CallReserve(v, n, f, H)
  \/ \E v \in V, n \in 0..MaxCap, f \in F : CallResize(v, n, f, H)
  \/ \E v \in V : CallPopBack(v, H)
  \/ Appends(V, F, H)

\* the calls that involve two vectors
Pair(F, H) ==
  \/ \E v \in Vecs, f \in F : CallVectorCopy(v, f, H)
  \/ \E v \in Vecs : CallVectorMove(v, H)
  \/ \E v \in Vecs, rhs \in Vecs, f \in F : CallCopyAssign(v, rhs, f, H)
  \/ \E v \in Vecs, rhs \in Vecs : CallMoveAssign(v, rhs, H)
  \/ \E v \in Vecs : CallSwap(v, H)

\* two vectors, any call; the failures are injected into the calls that involve
\* both (those of the calls on one vector are explored by SpecOne)
Next == Single(Vecs, {0}, MaxHeap) \/ Pair(Fail, MaxHeap)
Spec == Init /\ [][Next]_vars

\* one vector, any call on it, any failure
NextOne == Single({"a"}, Fail, MaxCap)
SpecOne == InitOne /\ [][NextOne]_vars

\* one vector, starting empty, appends only
NextAppend == Appends({"a"}, Fail, MaxCap)
SpecAppend == InitOne /\ [][NextAppend]_vars

\* two vectors, any call, and in each call either no failure or the failure of
\* its first fallible step, which is the allocation in a call that allocates
FirstStep == 0..1
NextAlloc == Single(Vecs, FirstStep, MaxHeap) \/ Pair(FirstStep, MaxHeap)
SpecAlloc == Init /\ [][NextAlloc]_vars

\* one vector, any call on it, also with an element of its own as the
\* argument, no failure
NextAlias == Single({"a"}, {0}, MaxCap) \/ Aliased({"a"}, {0}, MaxCap)
SpecAlias == InitOne /\ [][NextAlias]_vars

\* ---- RawMemory used on its own ----
OtherRaw(r) == CHOOSE x \in Raws : x # r

\* no vector, two default-constructed RawMemory objects
InitRaw ==
  /\ T \in Types
  /\ heap = EmptyHeap
  /\ vec = [v \in Vecs |-> DeadVector]
  /\ raw = [r \in Raws |-> [alive |-> TRUE, mem |-> EmptyRawMemory]]
  /\ last = NoLast
  /\ crashed = FALSE

\* the effect of one call on RawMemory objects: rw is raw after the call
RawCommit(m, rw, op, r, o, n) ==
  /\ m.f = 0
  /\ heap' = IF m.crash THEN heap ELSE m.h
  /\ raw' = IF m.crash \/ m.thrown THEN raw ELSE rw
  /\ crashed' = m.crash
  /\ last' = [NoLast EXCEPT !.op = op, !.v = r, !.o = o, !.pos = n,
                            !.res = Outcome(m), !.where = m.where, !.asrt = m.asrt]
  /\ UNCHANGED <<T, vec>>

CallRawMemoryDefault(r) ==
  /\ ~crashed /\ ~raw[r].alive
  /\ RawCommit(Start(0, "noop"), [raw EXCEPT ![r] = [alive |-> TRUE, mem |-> EmptyRawMemory]],
               "RawMemoryDefault", r, "", 0)

CallRawMemoryCtor(r, n, f) ==
  /\ ~crashed /\ ~raw[r].alive
  /\ LET m == Allocate(Start(f, "noop"), n) IN
     RawCommit(m, [raw EXCEPT ![r] = [alive |-> TRUE, mem |-> RawMemoryCtor(m.ret, n)]],
               "RawMemoryCtor", r, "", n)

CallRawMemoryMoveCtor(r) ==
  /\ ~crashed /\ ~raw[r].alive /\ raw[OtherRaw(r)].alive
  /\ LET o == OtherRaw(r)
         mv == RawMemoryMoveCtor(raw[o].mem) IN
     RawCommit(Start(0, "noop"),
               [raw EXCEPT ![r] = [alive |-> TRUE, mem |-> mv[1]], ![o].mem = mv[2]],
               "RawMemoryMoveCtor", r, o, 0)

\* control flows off the end of operator= without a return: the behaviour is
\* undefined; one build returns to the caller, another runs on past the function
CallRawMemoryMoveAssign(r, ub) ==
  /\ ~crashed /\ raw[r].alive /\ raw[OtherRaw(r)].alive
  /\ LET o == OtherRaw(r)
         sw == RawMemoryMoveAssign(raw[r].mem, raw[o].mem) IN
     RawCommit([Start(0, ub) EXCEPT !.crash = (ub = "crash")],
               [raw EXCEPT ![r].mem = sw[1], ![o].mem = sw[2]],
               "RawMemoryMoveAssign", r, o, 0)

CallRawMemorySwap(r) ==
  /\ ~crashed /\ raw[r].alive /\ raw[OtherRaw(r)].alive
  /\ LET o == OtherRaw(r)
         sw == RawMemorySwap(raw[r].mem, raw[o].mem) IN
     RawCommit(Start(0, "noop"), [raw EXCEPT ![r].mem = sw[1], ![o].mem = sw[2]],
               "RawMemorySwap", r, o, 0)

CallRawMemoryDtor(r) ==
  /\ ~crashed /\ raw[r].alive
  /\ RawCommit(Deallocate(Start(0, "noop"), raw[r].mem.buffer_),
               [raw EXCEPT ![r] = DeadRawMemory], "RawMemoryDtor", r, "", 0)

NextRaw ==
  \/ \E r \in Raws : CallRawMemoryDefault(r)
  \/ \E r \in Raws, n \in 0..MaxCap, f \in FirstStep : CallRawMemoryCtor(r, n, f)
  \/ \E r \in Raws : CallRawMemoryMoveCtor(r)
  \/ \E r \in Raws, ub \in {"noop", "crash"} : CallRawMemoryMoveAssign(r, ub)
  \/ \E r \in Raws : CallRawMemorySwap(r)
  \/ \E r \in Raws : CallRawMemoryDtor(r)
SpecRaw == InitRaw /\ [][NextRaw]_vars

\* ---- properties ----
InsertAt(s, pos, x) == SubSeq(s, 1, pos) \o <<x>> \o SubSeq(s, pos + 1, Len(s))

\* the representation invariant of one vector
VectorInv(v) ==
  LET d == vec[v].data_
      sz == vec[v].size_ IN
  /\ 0 <= sz /\ sz <= d.capacity_
  /\ (d.buffer_ = 0) <=> (d.capacity_ = 0)
  /\ d.capacity_ > 0 =>
       /\ heap[d.buffer_].live
       /\ Len(heap[d.buffer_].slots) = d.capacity_
       /\ \A i \in 1..d.capacity_ : (heap[d.buffer_].slots[i] # Raw) <=> (i <= sz)

\* C1: whatever calls were made, every vector has 0 <= Size() <= Capacity(), a
\* constructed element in every slot of [0, Size()) and none in any slot of
\* [Size(), Capacity()).
C1_VectorInvariant == \A v \in Vecs : vec[v].alive => VectorInv(v)

C1_Witness ==
  /\ last.op = "CopyAssign" /\ last.res = "ok" /\ last.path = "shrink"
  /\ Size(last.v) >= 1 /\ Size(last.v) < Capacity(last.v)
  /\ VectorInv(last.v)

\* C2: an Insert / Emplace at pos that returned has yielded
\* s[0..pos) ++ [v] ++ s[pos..size), one element more, and returned pos, on the
\* growth path and on the no-growth path, whatever a move leaves behind.
C2_InsertYieldsSequence ==
  (last.op \in InsertOps /\ last.res = "ok") =>
     /\ Elems(vec, heap, last.v) = InsertAt(last.pre, last.pos, last.val)
     /\ Size(last.v) = Len(last.pre) + 1
     /\ last.it = last.pos

\* C3: Insert(i, v) immediately followed by Erase(i) restores the sequence and
\* the size the vector had before the Insert.
C3_InsertEraseRestores ==
  [][(/\ last.op \in InsertOps /\ last.res = "ok"
      /\ last'.op = "Erase" /\ last'.res = "ok"
      /\ last'.v = last.v /\ last'.pos = last.pos)
     => Elems(vec, heap, last.v)' = last.pre]_vars

\* C4: when relocating an element fails on the growth path of an append or an
\* insertion, nothing constructed in the new storage outlives it and the
\* vector keeps its storage, elements, size and capacity.
C4_GrowthFailureRollsBack ==
  (last.op \in AppendOps \cup InsertOps /\ last.res = "throw" /\ last.where = "relocate") =>
     /\ ~last.leak
     /\ Elems(vec, heap, last.v) = last.pre
     /\ Capacity(last.v) = last.preCap
     /\ vec[last.v].data_.buffer_ = last.preBuf

\* the smallest power of two that is at least n (0 for 0)
RECURSIVE Pow2Ceil(_)
Pow2Ceil(n) == IF n <= 1 THEN n ELSE 2 * Pow2Ceil((n + 1) \div 2)

\* C5: n appends to an empty vector give size n and the capacities 1, 2, 4,
\* 8, ...: an append at size == capacity makes the capacity 1 if it was 0 and
\* twice as large otherwise, an append below capacity leaves it.
C5_AppendGrowth ==
  /\ Capacity("a") = Pow2Ceil(Size("a"))
  /\ (last.op \in AppendOps /\ last.res = "ok") =>
       /\ Size("a") = Len(last.pre) + 1
       /\ Len(last.pre) = last.preCap =>
            Capacity("a") = (IF last.preCap = 0 THEN 1 ELSE 2 * last.preCap)
       /\ Len(last.pre) < last.preCap => Capacity("a") = last.preCap

C5_Witness ==
  /\ last.op \in AppendOps /\ last.res = "ok" /\ last.path = "grow"
  /\ Size("a") = 3 /\ Capacity("a") = 4 /\ last.preCap = 2

\* C6: the elements relocated into new storage by Reserve and by the growth
\* path of an append or an insertion are copy-constructed when T is
\* copy-constructible and its move constructor may throw, and move-constructed
\* otherwise; a call that returned has relocated every element.
C6_RelocationPolicy ==
  (last.op \in {"Reserve"} \cup AppendOps \cup InsertOps /\ last.path = "grow") =>
     LET n == IF last.op = "Reserve" THEN Size(last.v) ELSE Len(last.pre) IN
     IF T.copyable /\ ~T.nothrowMove
     THEN last.rm = 0 /\ (last.res = "ok" => last.rc = n)
     ELSE last.rc = 0 /\ (last.res = "ok" => last.rm = n)

C6_Witness ==
  /\ last.op = "PushBackMove" /\ last.path = "grow" /\ last.res = "ok"
  /\ T.copyable /\ ~T.nothrowMove
  /\ last.rc = 2 /\ last.rm = 0

\* C7 as claimed: Reserve(n) is a no-op for n <= Capacity(), makes the capacity
\* exactly n and keeps size and elements for n > Capacity(), and changes
\* nothing when it throws.
C7_ReserveAllOrNothing ==
  [][last'.op = "Reserve" =>
       \/ /\ last'.res = "ok" /\ last'.pos <= Capacity("a")
          /\ vec' = vec /\ heap' = heap
       \/ /\ last'.res = "ok" /\ last'.pos > Capacity("a")
          /\ Capacity("a")' = last'.pos
          /\ Elems(vec, heap, "a")' = Elems(vec, heap, "a")
       \/ /\ last'.res = "throw" /\ ~last'.leak
          /\ vec' = vec /\ heap' = heap]_vars

\* C7 as amended: as claimed, but when Reserve throws the elements keep their
\* values only if T is copy-constructible; the elements of a T that is not are
\* relocated by move, and those moved before the failure stay moved-from.
C7_ReserveStrongIfCopied ==
  [][last'.op = "Reserve" =>
       \/ /\ last'.res = "ok" /\ last'.pos <= Capacity("a")
          /\ vec' = vec /\ heap' = heap
       \/ /\ last'.res = "ok" /\ last'.pos > Capacity("a")
          /\ Capacity("a")' = last'.pos
          /\ Elems(vec, heap, "a")' = Elems(vec, heap, "a")
       \/ /\ last'.res = "throw" /\ ~last'.leak
          /\ vec' = vec
          /\ \A b \in Blocks :
                /\ heap'[b].live = heap[b].live
                /\ Len(heap'[b].slots) = Len(heap[b].slots)
                /\ \A i \in 1..Len(heap[b].slots) :
                      (heap'[b].slots[i] = Raw) <=> (heap[b].slots[i] = Raw)
          /\ IF T.copyable THEN heap' = heap
             ELSE \A i \in 1..Size("a") :
                    Elems(vec, heap, "a")'[i] \in {Elems(vec, heap, "a")[i], Default}]_vars

C7_Witness ==
  /\ last.op = "Reserve" /\ last.res = "throw" /\ last.where = "relocate"
  /\ ~T.copyable /\ last.rm >= 1
  /\ Elems(vec, heap, "a")[1] = Default

\* the calls that leave the other vector alone
FrameOps ==
  AppendOps \cup InsertOps \cup
  {"VectorDefault", "VectorSized", "VectorDtor", "Erase", "Reserve", "Resize", "PopBack",
   "VectorCopy", "CopyAssign"}

MutatingOps == AppendOps \cup InsertOps \cup {"Erase", "Resize", "PopBack"}

\* C8: two vectors never share a block; a copy construction or copy assignment
\* leaves its source as it was, and no call on one vector changes the size,
\* capacity or elements of the other.
C8_CopiesAreIndependent ==
  /\ (vec["a"].alive /\ vec["b"].alive /\ vec["a"].data_.buffer_ # 0) =>
        vec["a"].data_.buffer_ # vec["b"].data_.buffer_
  /\ last.op \in FrameOps => View(vec, heap, Other(last.v)) = last.oth

C8_Witness ==
  /\ last.op \in MutatingOps /\ last.res = "ok" /\ last.copy = last.v
  /\ Size(Other(last.v)) >= 1
  /\ Elems(vec, heap, last.v) # Elems(vec, heap, Other(last.v))
  /\ View(vec, heap, Other(last.v)) = last.oth

\* C9: a copy assignment d = s from another vector that returned leaves d with
\* the elements and the size of s and leaves s as it was; d keeps its capacity
\* unless s.Size() exceeded it.
C9_CopyAssignEqualsSource ==
  (last.op = "CopyAssign" /\ last.res = "ok" /\ last.v # last.o) =>
     /\ Elems(vec, heap, last.v) = last.oth.elems
     /\ Size(last.v) = last.oth.obj.size_
     /\ View(vec, heap, last.o) = last.oth
     /\ (last.path = "realloc") <=> (last.oth.obj.size_ > last.preCap)
     /\ last.path # "realloc" => Capacity(last.v) = last.preCap

C9_Witness ==
  /\ last.op = "CopyAssign" /\ last.res = "ok" /\ last.v # last.o
  /\ last.path = "shrink" /\ Size(last.v) >= 1
  /\ Capacity(last.v) > Size(last.v)

\* C10: a move construction gives the new vector the block, elements, size and
\* capacity of its source, leaves the source with size 0 and capacity 0 and no
\* block, and touches no element.
C10_MoveConstructionTransfers ==
  (last.op = "VectorMove" /\ last.res = "ok") =>
     /\ vec[last.v].alive
     /\ vec[last.v].data_ = last.oth.obj.data_
     /\ Size(last.v) = last.oth.obj.size_
     /\ Elems(vec, heap, last.v) = last.oth.elems
     /\ Size(last.o) = 0 /\ Capacity(last.o) = 0 /\ vec[last.o].data_.buffer_ = 0
     /\ last.ops = 0

C10_Witness ==
  /\ last.op = "VectorMove" /\ last.res = "ok"
  /\ Size(last.v) >= 1 /\ Capacity(last.v) > Size(last.v)
  /\ Capacity(last.o) = 0

\* C11 as claimed: after a move construction or a move assignment from another
\* vector the source has size 0, whatever the destination held.
C11_MoveLeavesSourceEmpty ==
  (last.op \in {"VectorMove", "MoveAssign"} /\ last.res = "ok" /\ last.v # last.o) =>
     Size(last.o) = 0

\* C11 as amended: a move construction leaves its source with size 0; a move
\* assignment exchanges the two vectors, so its source ends with the size the
\* destination had, which is 0 exactly when the destination was empty.
C11_MoveLeavesSourceWithDestinationSize ==
  [][/\ last'.op = "VectorMove" => vec'[last'.o].size_ = 0
     /\ last'.op = "MoveAssign" => vec'[last'.o].size_ = vec[last'.v].size_]_vars

C11_Witness ==
  /\ last.op = "MoveAssign" /\ last.res = "ok" /\ last.v # last.o
  /\ Size(last.o) >= 1 /\ Size(last.v) >= 1
  /\ Size(last.o) # Size(last.v)

\* C12: Swap and move assignment exchange the two vectors - each ends with the
\* block, capacity, size and elements the other had - leave the heap as it was
\* and perform no element operation.
C12_SwapExchanges ==
  [][last'.op \in {"Swap", "MoveAssign"} =>
       /\ last'.res = "ok"
       /\ View(vec', heap', last'.v) = View(vec, heap, last'.o)
       /\ View(vec', heap', last'.o) = View(vec, heap, last'.v)
       /\ heap' = heap
       /\ last'.ops = 0 /\ last'.rc = 0 /\ last'.rm = 0]_vars

C12_Witness ==
  /\ last.op \in {"Swap", "MoveAssign"} /\ last.res = "ok" /\ last.v # last.o
  /\ Size(last.v) >= 1 /\ Size(last.o) >= 1
  /\ Capacity(last.v) # Capacity(last.o)
  /\ Elems(vec, heap, last.v) # Elems(vec, heap, last.o)
  /\ last.ops = 0

\* C13: a call in which the allocation of raw storage fails throws and leaves
\* every vector and every block as they were: no element was constructed,
\* moved, assigned or destroyed before the allocation was attempted.
C13_AllocationFailureChangesNothing ==
  [][(last'.res = "throw" /\ last'.where = "alloc") =>
       /\ vec' = vec /\ heap' = heap
       /\ last'.ops = 0 /\ last'.rc = 0 /\ last'.rm = 0
       /\ ~last'.leak]_vars

C13_Witness ==
  /\ last.res = "throw" /\ last.where = "alloc"
  /\ last.op = "CopyAssign" /\ last.path = "realloc"
  /\ Size(last.v) >= 1 /\ Size(last.o) > Capacity(last.v)
  /\ last.ops = 0

\* C14: a transfer construction or a transfer assignment of a RawMemory that
\* returned has given the destination the block and the capacity of the source
\* and left the source with no block and capacity 0, also when the destination
\* of the assignment owned a block.
C14_TransferEmptiesSource ==
  [][(last'.op \in {"RawMemoryMoveCtor", "RawMemoryMoveAssign"} /\ last'.res = "ok") =>
       /\ raw'[last'.v].mem = raw[last'.o].mem
       /\ raw'[last'.o].mem = EmptyRawMemory]_vars

\* C15: a PopBack that directly follows an append (PushBack or EmplaceBack)
\* that returned leaves the vector with the size and the elements, in their
\* order, that it had before the append, whether or not the append reallocated.
C15_AppendPopRestores ==
  (last.op = "PopBack" /\ last.undo.set) =>
     /\ Size(last.v) = Len(last.undo.pre)
     /\ Elems(vec, heap, last.v) = last.undo.pre

C15_Witness ==
  /\ last.op = "PopBack" /\ last.undo.set /\ last.undo.path = "grow"
  /\ T.moveChanges /\ MoveIfNoexcept
  /\ Size(last.v) = 2 /\ Capacity(last.v) = 4
  /\ Elems(vec, heap, last.v) = last.undo.pre
  /\ \E i \in 1..2 : Elems(vec, heap, last.v)[i] # Default

RemoveAt(s, pos) == SubSeq(s, 1, pos) \o SubSeq(s, pos + 2, Len(s))

\* C16: Erase(i) with 0 <= i < Size(), unless an element assignment throws,
\* returns position i and leaves the sequence without its element i, the other
\* elements in their order with their values, the size one less and the
\* capacity as it was; this includes the erasure of the last element.
C16_EraseRemovesOne ==
  [][(last'.op = "Erase" /\ last'.res # "throw") =>
       /\ last'.res = "ok"
       /\ Elems(vec', heap', last'.v) = RemoveAt(Elems(vec, heap, last'.v), last'.pos)
       /\ vec'[last'.v].size_ = vec[last'.v].size_ - 1
       /\ vec'[last'.v].data_.capacity_ = vec[last'.v].data_.capacity_
       /\ last'.it = last'.pos]_vars

\* the same for the calls of Erase that return
EraseReturned ==
  [][(last'.op = "Erase" /\ last'.res = "ok") =>
       /\ Elems(vec', heap', last'.v) = RemoveAt(Elems(vec, heap, last'.v), last'.pos)
       /\ vec'[last'.v].size_ = vec[last'.v].size_ - 1
       /\ vec'[last'.v].data_.capacity_ = vec[last'.v].data_.capacity_
       /\ last'.it = last'.pos]_vars

\* C20: no call of a public operation of Vector within its preconditions has
\* violated a bounds assertion of RawMemory or of Vector.
C20_NoAssertionViolated == ~last.asrt

\* C17: when an element operation fails on the no-growth path of Insert /
\* Emplace, a vector that satisfied its invariant keeps its size and still
\* satisfies it: no constructed element outside [0, Size()) and no
\* unconstructed slot inside.
C17_NoGrowthFailureKeepsInvariant ==
  [][\A v \in Vecs :
       (/\ last'.op \in InsertOps /\ last'.v = v
        /\ last'.res = "throw" /\ last'.path = "nogrow"
        /\ VectorInv(v))
       => /\ vec'[v].size_ = vec[v].size_
          /\ VectorInv(v)']_vars

\* the vectors that hold block b
Holders(b) == {v \in Vecs : vec[v].alive /\ vec[v].data_.buffer_ = b}

\* C18: no call releases a block that still holds a live element, releases a
\* block twice, destroys an element twice or constructs one over a live one;
\* every allocated block that was not released is the block of exactly one
\* vector, and the elements of a vector live in its block; so once every
\* vector is destroyed no block and no element is left.
C18_EverythingReleasedOnce ==
  /\ ~last.leak /\ ~last.misuse
  /\ \A b \in Blocks : heap[b].live => Cardinality(Holders(b)) = 1
  /\ \A v \in Vecs : (vec[v].alive /\ vec[v].data_.buffer_ # 0) =>
        /\ heap[vec[v].data_.buffer_].live
        /\ \A i \in 1..Len(heap[vec[v].data_.buffer_].slots) :
              (heap[vec[v].data_.buffer_].slots[i] # Raw) <=> (i <= Size(v))
  /\ (\A v \in Vecs : ~vec[v].alive) => heap = EmptyHeap

C18_Witness ==
  /\ \A v \in Vecs : ~vec[v].alive
  /\ last.op = "VectorDtor" /\ last.res = "ok" /\ last.ops = 2
  /\ heap = EmptyHeap /\ ~last.leak /\ ~last.misuse

\* C19: a call Insert(pos, v[j]), PushBack(v[j]) or EmplaceBack(v[j]) returns,
\* unless an element operation throws, and has added one element whose value is
\* the value v[j] had before the call, on the growth path and on the no-growth
\* path.
C19_AliasedArgumentAddsOldValue ==
  (last.op \in AliasOps /\ last.res # "throw") =>
     /\ last.res = "ok"
     /\ Size(last.v) = Len(last.pre) + 1
     /\ Elems(vec, heap, last.v)[last.pos + 1] = last.val

\* the same for the calls that return
AliasedReturned ==
  (last.op \in AliasOps /\ last.res = "ok") =>
     /\ Size(last.v) = Len(last.pre) + 1
     /\ Elems(vec, heap, last.v)[last.pos + 1] = last.val

====
